---- MODULE Spec2Model ----
(***************************************************************************)
(* Model of the notes frontend: the API client of api.js (remote call,     *)
(* in-memory fallback store) and the optimistic-update state machine of    *)
(* NotesLayout.js (notes collection, active id, mode, reactive rule).      *)
(*                                                                         *)
(* Rendering is the batched rendering of React 18: the state updates a     *)
(* handler (or the synchronous part of a continuation) makes are committed *)
(* together, and the passive effect on [notes, activeId] runs after the    *)
(* commit and before the next event is handled.  The effect is the action  *)
(* Effect; effectPending says that its dependencies changed in the last    *)
(* commit.  A settled API promise (stage "done") is consumed by the        *)
(* awaiting handler before any other event.                                *)
(*                                                                         *)
(* Ids are integers: 0 is null, negative ids are the temporary ids         *)
(* temp_<Date.now()>, positive ids are ids of the backend or of the        *)
(* fallback store.                                                         *)
(***************************************************************************)
EXTENDS Integers, Sequences, FiniteSets, TLC

\* ---------------------------------------------------------------- bounds
MaxSteps == 4
MaxCalls == 3
MaxClock == 1
MaxRand == 2
MaxText == 2
MaxTerm == 3

\* ------------------------------------------------------------- constants
Null == 0
SeedId == 1
Untitled == "Untitled"
Titles == {"", "T1"}
Contents == {"B"}
Payloads == [title : Titles, content : Contents]
NoPayload == [title |-> "", content |-> ""]
RandIds == 2..(1 + MaxRand)
\* characters of the texts the sidebar search is checked on, and the
\* sequences of them up to a length
Chars == {"a", "A", " "}
Strings(n) == UNION {[1..k -> Chars] : k \in 0..n}
Texts == Strings(MaxText)
Terms == Strings(MaxTerm)

\* ------------------------------------------------------------- variables
VARIABLES
  base,            \* getApiBase() is non-empty
  enableFallback,  \* FEATURE_FLAGS includes 'fallback'
  fallbackNotes,   \* the in-memory fallback data store
  srvNotes,        \* the notes held by the remote backend
  srvNextId,       \* next id the backend assigns
  clock,           \* Date.now()
  reqs,            \* API calls in flight
  notes,           \* useNotes: notes
  status,          \* useNotes: status
  error,           \* useNotes: error
  activeId,        \* NotesLayout: activeId
  mode,            \* NotesLayout: mode
  saving,          \* NotesLayout: saving
  search,          \* NotesLayout: search, a sequence of characters
  tempCount,       \* number of temporary ids generated so far
  steps,           \* history: user actions and direct API calls so far
  effectPending,   \* the effect on [notes, activeId] has to run
  selected,        \* history: the id the user selected while a create or a
                   \* delete request was in flight, Null when there is none
  last             \* history: the event handled last

vars == <<base, enableFallback, fallbackNotes, srvNotes, srvNextId, clock, reqs,
          notes, status, error, activeId, mode, saving, search, tempCount, steps,
          effectPending, selected, last>>

apiVars == <<fallbackNotes, srvNotes, srvNextId>>
uiVars == <<notes, status, error, activeId, mode, saving, search, tempCount, effectPending,
           selected>>
cfgVars == <<base, enableFallback>>

\* --------------------------------------------------------------- helpers
Note(i, t, c, u) == [id |-> i, title |-> t, content |-> c, updatedAt |-> u]

Ids(s) == {s[i].id : i \in DOMAIN s}

HasId(s, i) == \E k \in DOMAIN s : s[k].id = i

\* Array.prototype.filter(n => n.id !== i)
Without(s, i) == SelectSeq(s, LAMBDA n : n.id # i)

\* Array.prototype.findIndex(n => n.id === i), 0 when there is none
FindIndex(s, i) ==
  IF HasId(s, i) THEN CHOOSE k \in DOMAIN s : s[k].id = i /\ \A j \in 1..(k-1) : s[j].id # i
  ELSE 0

NoDup(s) == \A i, j \in DOMAIN s : s[i].id = s[j].id => i = j

\* x || 'Untitled'
OrUntitled(t) == IF t = "" THEN Untitled ELSE t

\* stable insertion of n into a list sorted by updatedAt descending
RECURSIVE InsertDesc(_, _)
InsertDesc(n, s) ==
  IF s = <<>> THEN <<n>>
  ELSE IF Head(s).updatedAt >= n.updatedAt THEN <<Head(s)>> \o InsertDesc(n, Tail(s))
  ELSE <<n>> \o s

\* [...s].sort((a, b) => new Date(b.updatedAt) - new Date(a.updatedAt))
RECURSIVE SortDesc(_)
SortDesc(s) ==
  IF s = <<>> THEN <<>>
  ELSE InsertDesc(s[Len(s)], SortDesc(SubSeq(s, 1, Len(s) - 1)))

\* ------------------------------------------------------------ API client
\* An API call in flight.  stage: "sent" (fetch issued, the backend has not
\* answered), "replied" (the backend's response is on its way), "delay"
\* (fakeDelay of the fallback path), "done" (the promise is settled: ok/data
\* or err).  owner is the awaiting caller; tempId and snapshot are the
\* caller's closure (tempId of handleSave, notes of handleDelete).
Unavailable == "Backend unavailable and fallback disabled."
NotFound == "Note not found"
RequestFailed == "Request failed"

Rids == {r.rid : r \in reqs}

FreshRid == CHOOSE n \in 1..(Cardinality(reqs) + 1) : n \notin Rids

\* entry of listNotes/getNote/createNote/updateNote/deleteNote: the remote
\* call when a base URL is configured, else the fallback, else the throw
Call(rid, kind, owner, id, payload, tempId, snapshot) ==
  [rid |-> rid, kind |-> kind, owner |-> owner, id |-> id,
   payload |-> payload, tempId |-> tempId, snapshot |-> snapshot,
   stage |-> IF base THEN "sent" ELSE IF enableFallback THEN "delay" ELSE "done",
   ok |-> FALSE, data |-> <<>>,
   err |-> IF ~base /\ ~enableFallback THEN Unavailable ELSE ""]

\* Catch without the test of enableFallback
CatchAlways(r, e) == [r EXCEPT !.stage = "delay", !.ok = FALSE, !.data = <<>>, !.err = ""]

\* catch (e) { if (!enableFallback) throw e; } followed by the fallback path
Catch(r, e) ==
  IF enableFallback
  THEN [r EXCEPT !.stage = "delay", !.ok = FALSE, !.data = <<>>, !.err = ""]
  ELSE [r EXCEPT !.stage = "done", !.ok = FALSE, !.data = <<>>, !.err = e]

Settle(r, isOk, d, e) == [r EXCEPT !.stage = "done", !.ok = isOk, !.data = d, !.err = e]

Stable == ~effectPending /\ \A r \in reqs : r.stage # "done"
\* a user action is taken between events, within the budget
User == Stable /\ steps < MaxSteps /\ steps' = steps + 1

\* the backend serves a request: GET/POST/PUT/DELETE on {BASE}/notes
ServerHandle(r) ==
  /\ last' = "ServerHandle"
  /\ Stable
  /\ r.stage = "sent"
  /\ LET k == FindIndex(srvNotes, r.id)
         created == Note(srvNextId, r.payload.title, r.payload.content, clock)
         updated == [srvNotes[k] EXCEPT !.title = r.payload.title,
                                        !.content = r.payload.content,
                                        !.updatedAt = clock]
         reply(isOk, d, e) == [r EXCEPT !.stage = "replied", !.ok = isOk, !.data = d, !.err = e]
     IN CASE r.kind = "list" ->
               /\ reqs' = (reqs \ {r}) \cup {reply(TRUE, srvNotes, "")}
               /\ UNCHANGED <<srvNotes, srvNextId>>
          [] r.kind = "create" ->
               /\ srvNotes' = <<created>> \o srvNotes
               /\ srvNextId' = srvNextId + 1
               /\ reqs' = (reqs \ {r}) \cup {reply(TRUE, <<created>>, "")}
          [] r.kind = "get" /\ k # 0 ->
               /\ reqs' = (reqs \ {r}) \cup {reply(TRUE, <<srvNotes[k]>>, "")}
               /\ UNCHANGED <<srvNotes, srvNextId>>
          [] r.kind = "update" /\ k # 0 ->
               /\ srvNotes' = [srvNotes EXCEPT ![k] = updated]
               /\ reqs' = (reqs \ {r}) \cup {reply(TRUE, <<updated>>, "")}
               /\ UNCHANGED srvNextId
          [] r.kind = "delete" /\ k # 0 ->
               /\ srvNotes' = Without(srvNotes, r.id)
               /\ reqs' = (reqs \ {r}) \cup {reply(TRUE, <<>>, "")}
               /\ UNCHANGED srvNextId
          [] OTHER ->
               /\ reqs' = (reqs \ {r}) \cup {reply(FALSE, <<>>, NotFound)}
               /\ UNCHANGED <<srvNotes, srvNextId>>
  /\ UNCHANGED <<cfgVars, fallbackNotes, clock, steps, uiVars>>

\* fetch rejects (network error) or the backend answers non-2xx without
\* serving the request: the catch block of the API function runs
RemoteFailure(r) ==
  /\ last' = "RemoteFailure"
  /\ Stable
  /\ r.stage = "sent"
  /\ reqs' = (reqs \ {r}) \cup {Catch(r, RequestFailed)}
  /\ UNCHANGED <<cfgVars, apiVars, clock, steps, uiVars>>

\* the response arrives: handleResponse, then return or catch
ResponseArrives(r) ==
  /\ last' = "ResponseArrives"
  /\ Stable
  /\ r.stage = "replied"
  /\ reqs' = (reqs \ {r}) \cup
       {IF r.ok THEN Settle(r, TRUE, r.data, "") ELSE Catch(r, r.err)}
  /\ UNCHANGED <<cfgVars, apiVars, clock, steps, uiVars>>

\* the fallback path of each API function, after fakeDelay; rnd is
\* Math.random().toString(36).slice(2, 10)
FallbackRun(r, rnd) ==
  /\ last' = "FallbackRun"
  /\ Stable
  /\ r.stage = "delay"
  /\ LET k == FindIndex(fallbackNotes, r.id)
         newNote == Note(rnd, OrUntitled(r.payload.title), r.payload.content, clock)
         updated == [fallbackNotes[k] EXCEPT !.title = r.payload.title,
                                             !.content = r.payload.content,
                                             !.updatedAt = clock]
     IN CASE r.kind = "list" ->
               /\ reqs' = (reqs \ {r}) \cup {Settle(r, TRUE, SortDesc(fallbackNotes), "")}
               /\ UNCHANGED fallbackNotes
          [] r.kind = "get" ->
               /\ reqs' = (reqs \ {r}) \cup
                    {IF k = 0 THEN Settle(r, FALSE, <<>>, NotFound)
                     ELSE Settle(r, TRUE, <<fallbackNotes[k]>>, "")}
               /\ UNCHANGED fallbackNotes
          [] r.kind = "create" ->
               /\ fallbackNotes' = <<newNote>> \o fallbackNotes
               /\ reqs' = (reqs \ {r}) \cup {Settle(r, TRUE, <<newNote>>, "")}
          [] r.kind = "update" ->
               IF k = 0
               THEN /\ reqs' = (reqs \ {r}) \cup {Settle(r, FALSE, <<>>, NotFound)}
                    /\ UNCHANGED fallbackNotes
               ELSE /\ fallbackNotes' = [fallbackNotes EXCEPT ![k] = updated]
                    /\ reqs' = (reqs \ {r}) \cup {Settle(r, TRUE, <<updated>>, "")}
          [] r.kind = "delete" ->
               /\ fallbackNotes' = Without(fallbackNotes, r.id)
               /\ reqs' = (reqs \ {r}) \cup {Settle(r, TRUE, <<>>, "")}
  /\ UNCHANGED <<cfgVars, srvNotes, srvNextId, clock, steps, uiVars>>

\* a caller other than NotesLayout calls listNotes, getNote, createNote,
\* updateNote or deleteNote, and awaits the result before its next call
ApiCall(kind, id, payload) ==
  /\ last' = "ApiCall"
  /\ User
  /\ steps < MaxCalls
  /\ reqs = {}
  /\ reqs' = reqs \cup {Call(FreshRid, kind, "api", id, payload, Null, <<>>)}
  /\ UNCHANGED <<cfgVars, apiVars, clock, uiVars>>

\* that caller receives the result or the failure
ApiDone(r) ==
  /\ last' = "ApiDone"
  /\ r.stage = "done" /\ r.owner = "api"
  /\ reqs' = reqs \ {r}
  /\ UNCHANGED <<cfgVars, apiVars, clock, steps, uiVars>>

\* time passes
Tick ==
  /\ last' = "Tick"
  /\ Stable
  /\ clock < MaxClock
  /\ clock' = clock + 1
  /\ UNCHANGED <<cfgVars, apiVars, reqs, steps, uiVars>>

\* ------------------------------------------------------- View State Store
\* useNotes.refresh up to its await: setStatus('loading'); setError('');
\* listNotes()
RefreshCall(rid, owner) == Call(rid, "list", owner, Null, NoPayload, Null, <<>>)

\* RefreshDone that clears the collection when the list call fails
RefreshDoneClears(r) ==
  /\ last' = "RefreshDone"
  /\ ~effectPending
  /\ r.stage = "done" /\ r.kind = "list" /\ r.owner = "refresh"
  /\ reqs' = reqs \ {r}
  /\ IF r.ok
     THEN /\ notes' = r.data
          /\ status' = "success"
          /\ UNCHANGED error
     ELSE /\ notes' = <<>>
          /\ status' = "error"
          /\ error' = r.err
  /\ effectPending' = TRUE
  /\ UNCHANGED <<cfgVars, apiVars, clock, search, selected, steps, activeId, mode, saving,
                 tempCount>>

\* useNotes.refresh after the await, called from the mount effect or from
\* the catch block of handleDelete
RefreshDone(r) ==
  /\ last' = "RefreshDone"
  /\ ~effectPending
  /\ r.stage = "done" /\ r.kind = "list" /\ r.owner = "refresh"
  /\ reqs' = reqs \ {r}
  /\ IF r.ok
     THEN /\ notes' = r.data
          /\ status' = "success"
          /\ effectPending' = TRUE
          /\ UNCHANGED error
     ELSE /\ status' = "error"
          /\ error' = r.err
          /\ UNCHANGED <<notes, effectPending>>
  /\ UNCHANGED <<cfgVars, apiVars, clock, search, selected, steps, activeId, mode, saving,
                 tempCount>>

\* ------------------------------------------------------ Root Composition
ActiveNote == IF HasId(notes, activeId) THEN <<notes[FindIndex(notes, activeId)]>> ELSE <<>>

\* Effect without the branch for the empty collection
EffectNoEmpty ==
  /\ last' = "Effect"
  /\ effectPending
  /\ IF Len(notes) > 0 /\ activeId = Null
     THEN /\ activeId' = notes[1].id
          /\ mode' = "viewing"
     ELSE UNCHANGED <<activeId, mode>>
  /\ effectPending' = (activeId' # activeId)
  /\ UNCHANGED <<cfgVars, apiVars, clock, search, selected, steps, reqs, notes, status, error,
                 saving,
                 tempCount>>

\* useEffect(..., [notes, activeId])
Effect ==
  /\ last' = "Effect"
  /\ effectPending
  /\ IF Len(notes) > 0 /\ activeId = Null
     THEN /\ activeId' = notes[1].id
          /\ mode' = "viewing"
     ELSE IF Len(notes) = 0
          THEN /\ activeId' = Null
               /\ mode' = "empty"
          ELSE UNCHANGED <<activeId, mode>>
  /\ effectPending' = (activeId' # activeId)
  /\ UNCHANGED <<cfgVars, apiVars, clock, search, selected, steps, reqs, notes, status, error,
                 saving,
                 tempCount>>

\* ---------------------------------------------------------------- Sidebar
\* String.prototype.toLowerCase, character by character
LowerChar(c) == IF c = "A" THEN "a" ELSE c

ToLowerCase(t) == [i \in DOMAIN t |-> LowerChar(t[i])]

\* String.prototype.trim
RECURSIVE TrimStart(_)
TrimStart(t) == IF t # <<>> /\ Head(t) = " " THEN TrimStart(Tail(t)) ELSE t

RECURSIVE TrimEnd(_)
TrimEnd(t) ==
  IF t # <<>> /\ t[Len(t)] = " " THEN TrimEnd(SubSeq(t, 1, Len(t) - 1)) ELSE t

Trim(t) == TrimEnd(TrimStart(t))

\* String.prototype.includes
Includes(t, u) ==
  \E i \in 0..(Len(t) - Len(u)) : SubSeq(t, i + 1, i + Len(u)) = u

\* Filtered without the trim of the search text
FilteredNoTrim ==
  LET term == ToLowerCase(search)
  IN IF term = <<>> THEN notes
     ELSE SelectSeq(notes, LAMBDA n : \/ Includes(ToLowerCase(n.title), term)
                                      \/ Includes(ToLowerCase(n.content), term))

\* Sidebar: filtered
Filtered ==
  LET term == ToLowerCase(Trim(search))
  IN IF term = <<>> THEN notes
     ELSE SelectSeq(notes, LAMBDA n : \/ Includes(ToLowerCase(n.title), term)
                                      \/ Includes(ToLowerCase(n.content), term))

LoadingNotes == "Loading notes"
NoMatch == "No notes match your search"
NoNotesYet == "No notes yet"

\* Sidebar: the placeholder shown in the list, "" when there is none
Placeholder ==
  IF status = "loading" THEN LoadingNotes
  ELSE IF Len(Filtered) = 0
       THEN (IF search # <<>> THEN NoMatch ELSE NoNotesYet)
       ELSE ""

\* the search input's onChange: setSearch(e.target.value)
SetSearch(v) ==
  /\ last' = "SetSearch"
  /\ Stable
  /\ v # search
  /\ search' = v
  /\ UNCHANGED <<cfgVars, apiVars, clock, reqs, notes, status, error, activeId, mode,
                 saving, tempCount, steps, effectPending, selected>>

\* the create and delete requests of the handlers in flight
MutationsInFlight(rs) == {r \in rs : r.kind \in {"create", "delete"} /\ r.owner # "api"}

\* a click on a sidebar item
OnSelect(id) ==
  /\ last' = "OnSelect"
  /\ selected' = IF MutationsInFlight(reqs) # {} THEN id ELSE Null
  /\ User
  /\ HasId(Filtered, id)
  /\ activeId' = id
  /\ mode' = "viewing"
  /\ effectPending' = (id # activeId)
  /\ UNCHANGED <<cfgVars, apiVars, clock, search, reqs, notes, status, error, saving, tempCount>>

\* a click on "+ New" or on "Create a note"
OnCreate ==
  /\ last' = "OnCreate"
  /\ selected' = Null
  /\ User
  /\ mode' = "creating"
  /\ activeId' = Null
  /\ effectPending' = (activeId # Null)
  /\ UNCHANGED <<cfgVars, apiVars, clock, search, reqs, notes, status, error, saving, tempCount>>

\* the Edit button of NoteView
StartEdit ==
  /\ last' = "StartEdit"
  /\ User
  /\ mode = "viewing" /\ ActiveNote # <<>>
  /\ mode' = "editing"
  /\ UNCHANGED <<cfgVars, apiVars, clock, search, selected, reqs, notes, status, error,
                 activeId, saving,
                 tempCount, effectPending>>

\* the Cancel button of NoteEditor
CancelEdit ==
  /\ last' = "CancelEdit"
  /\ User
  /\ mode \in {"creating", "editing"}
  /\ mode' = IF Len(notes) = 0 THEN "empty" ELSE "viewing"
  /\ UNCHANGED <<cfgVars, apiVars, clock, search, selected, reqs, notes, status, error,
                 activeId, saving,
                 tempCount, effectPending>>

\* handleSave, creating branch, up to the await: the Save button of
\* NoteEditor is disabled while saving
HandleSaveCreate(payload) ==
  /\ last' = "HandleSaveCreate"
  /\ selected' = Null
  /\ User
  /\ mode = "creating" /\ ~saving
  /\ LET tempId == 0 - (tempCount + 1)
         optimistic == Note(tempId, OrUntitled(payload.title), payload.content, clock)
     IN /\ notes' = <<optimistic>> \o notes
        /\ activeId' = tempId
        /\ reqs' = reqs \cup {Call(FreshRid, "create", "save", Null, payload, tempId, <<>>)}
  /\ mode' = "viewing"
  /\ saving' = TRUE
  /\ tempCount' = tempCount + 1
  /\ effectPending' = TRUE
  /\ UNCHANGED <<cfgVars, apiVars, clock, search, status, error>>

\* ReplaceTemp without the filter: the temporary entry is kept
ReplaceTempKeep(prev, created, tempId) == <<created>> \o prev

\* prev => [created, ...prev.filter(n => n.id !== tempId)]
ReplaceTemp(prev, created, tempId) == <<created>> \o Without(prev, tempId)

\* CreateDone with a rollback of the optimistic entry on failure
CreateDoneRollback(r) ==
  /\ last' = "CreateDone"
  /\ selected' = IF MutationsInFlight(reqs \ {r}) = {} THEN Null ELSE selected
  /\ ~effectPending
  /\ r.stage = "done" /\ r.kind = "create" /\ r.owner = "save"
  /\ reqs' = reqs \ {r}
  /\ IF r.ok
     THEN /\ notes' = ReplaceTemp(notes, r.data[1], r.tempId)
          /\ activeId' = r.data[1].id
          /\ mode' = "viewing"
     ELSE /\ notes' = Without(notes, r.tempId)
          /\ UNCHANGED <<activeId, mode>>
  /\ effectPending' = TRUE
  /\ saving' = FALSE
  /\ UNCHANGED <<cfgVars, apiVars, clock, search, steps, status, error, tempCount>>

\* handleSave, creating branch, after the await
CreateDone(r) ==
  /\ last' = "CreateDone"
  /\ selected' = IF MutationsInFlight(reqs \ {r}) = {} THEN Null ELSE selected
  /\ ~effectPending
  /\ r.stage = "done" /\ r.kind = "create" /\ r.owner = "save"
  /\ reqs' = reqs \ {r}
  /\ IF r.ok
     THEN /\ notes' = ReplaceTemp(notes, r.data[1], r.tempId)
          /\ activeId' = r.data[1].id
          /\ mode' = "viewing"
          /\ effectPending' = TRUE
     ELSE UNCHANGED <<notes, activeId, mode, effectPending>>
  /\ saving' = FALSE
  /\ UNCHANGED <<cfgVars, apiVars, clock, search, steps, status, error, tempCount>>

\* HandleSaveEdit with the Save button enabled while saving
HandleSaveEditEnabled(payload) ==
  /\ last' = "HandleSaveEdit"
  /\ User
  /\ mode = "editing"
  /\ IF ActiveNote # <<>>
     THEN /\ LET k == FindIndex(notes, activeId)
                 updated == [notes[k] EXCEPT !.title = payload.title,
                                             !.content = payload.content,
                                             !.updatedAt = clock]
             IN notes' = [i \in DOMAIN notes |->
                            IF notes[i].id = activeId THEN updated ELSE notes[i]]
          /\ reqs' = reqs \cup {Call(FreshRid, "update", "save", activeId, payload, Null, <<>>)}
          /\ saving' = TRUE
          /\ effectPending' = TRUE
     ELSE UNCHANGED <<notes, reqs, saving, effectPending>>
  /\ UNCHANGED <<cfgVars, apiVars, clock, search, selected, status, error, activeId, mode,
                 tempCount>>

\* handleSave, editing branch, up to the await; without an active note the
\* handler only sets and resets saving
HandleSaveEdit(payload) ==
  /\ last' = "HandleSaveEdit"
  /\ User
  /\ mode = "editing" /\ ~saving
  /\ IF ActiveNote # <<>>
     THEN /\ LET k == FindIndex(notes, activeId)
                 updated == [notes[k] EXCEPT !.title = payload.title,
                                             !.content = payload.content,
                                             !.updatedAt = clock]
             IN notes' = [i \in DOMAIN notes |->
                            IF notes[i].id = activeId THEN updated ELSE notes[i]]
          /\ reqs' = reqs \cup {Call(FreshRid, "update", "save", activeId, payload, Null, <<>>)}
          /\ saving' = TRUE
          /\ effectPending' = TRUE
     ELSE UNCHANGED <<notes, reqs, saving, effectPending>>
  /\ UNCHANGED <<cfgVars, apiVars, clock, search, selected, status, error, activeId, mode,
                 tempCount>>

\* handleSave, editing branch, after await updateNote: refresh() is called
\* on success; a failure goes to the catch block
UpdateDone(r) ==
  /\ last' = "UpdateDone"
  /\ ~effectPending
  /\ r.stage = "done" /\ r.kind = "update" /\ r.owner = "save"
  /\ IF r.ok
     THEN /\ reqs' = (reqs \ {r}) \cup {RefreshCall(r.rid, "save")}
          /\ status' = "loading"
          /\ error' = ""
          /\ UNCHANGED saving
     ELSE /\ reqs' = reqs \ {r}
          /\ saving' = FALSE
          /\ UNCHANGED <<status, error>>
  /\ UNCHANGED <<cfgVars, apiVars, clock, search, selected, steps, notes, activeId, mode, tempCount,
                 effectPending>>

\* SaveRefreshDone without setMode('viewing')
SaveRefreshDoneKeepMode(r) ==
  /\ last' = "SaveRefreshDone"
  /\ ~effectPending
  /\ r.stage = "done" /\ r.kind = "list" /\ r.owner = "save"
  /\ reqs' = reqs \ {r}
  /\ IF r.ok
     THEN /\ notes' = r.data
          /\ status' = "success"
          /\ effectPending' = TRUE
          /\ UNCHANGED error
     ELSE /\ status' = "error"
          /\ error' = r.err
          /\ UNCHANGED <<notes, effectPending>>
  /\ saving' = FALSE
  /\ UNCHANGED <<cfgVars, apiVars, clock, search, selected, steps, activeId, mode, tempCount>>

\* handleSave, editing branch: the awaited refresh() settles, then
\* setMode('viewing') and the finally block
SaveRefreshDone(r) ==
  /\ last' = "SaveRefreshDone"
  /\ ~effectPending
  /\ r.stage = "done" /\ r.kind = "list" /\ r.owner = "save"
  /\ reqs' = reqs \ {r}
  /\ IF r.ok
     THEN /\ notes' = r.data
          /\ status' = "success"
          /\ effectPending' = TRUE
          /\ UNCHANGED error
     ELSE /\ status' = "error"
          /\ error' = r.err
          /\ UNCHANGED <<notes, effectPending>>
  /\ mode' = "viewing"
  /\ saving' = FALSE
  /\ UNCHANGED <<cfgVars, apiVars, clock, search, selected, steps, activeId, tempCount>>

\* handleDelete up to the await, the user confirms
HandleDelete ==
  /\ last' = "HandleDelete"
  /\ selected' = Null
  /\ User
  /\ mode \in {"viewing", "editing"}
  /\ ActiveNote # <<>>
  /\ notes' = Without(notes, activeId)
  /\ activeId' = Null
  /\ mode' = "empty"
  /\ reqs' = reqs \cup {Call(FreshRid, "delete", "delete", activeId, NoPayload, Null, notes)}
  /\ effectPending' = TRUE
  /\ UNCHANGED <<cfgVars, apiVars, clock, search, status, error, saving, tempCount>>

\* handleDelete called without an active note: if (!activeNote) return (the
\* Delete buttons are rendered only with an active note)
HandleDeleteNoActive ==
  /\ last' = "HandleDeleteNoActive"
  /\ Stable
  /\ ActiveNote = <<>>
  /\ UNCHANGED <<cfgVars, apiVars, clock, reqs, steps, uiVars>>

\* HandleDeleteDeclined with the optimistic removal made before the prompt
HandleDeleteDeclinedRemoves ==
  /\ last' = "HandleDeleteDeclined"
  /\ Stable
  /\ mode \in {"viewing", "editing"}
  /\ ActiveNote # <<>>
  /\ notes' = Without(notes, activeId)
  /\ effectPending' = TRUE
  /\ UNCHANGED <<cfgVars, apiVars, clock, reqs, steps, status, error, activeId, mode,
                 saving, search, tempCount, selected>>

\* handleDelete, the user declines the confirmation
HandleDeleteDeclined ==
  /\ last' = "HandleDeleteDeclined"
  /\ Stable
  /\ mode \in {"viewing", "editing"}
  /\ ActiveNote # <<>>
  /\ UNCHANGED <<cfgVars, apiVars, clock, reqs, steps, uiVars>>

\* NextAfterDelete without the length test and the id test
NextAfterDeleteAny(snapshot, idToDelete) ==
  IF snapshot # <<>> THEN snapshot[1].id ELSE Null

\* if (notes.length > 1) { next = notes.find(n => n.id !== idToDelete) }:
\* the id of next, Null when nothing is selected
NextAfterDelete(snapshot, idToDelete) ==
  IF Len(snapshot) > 1 /\ Without(snapshot, idToDelete) # <<>>
  THEN Without(snapshot, idToDelete)[1].id
  ELSE Null

\* DeleteDone without the refresh() of the catch block
DeleteDoneNoRefresh(r) ==
  /\ last' = "DeleteDone"
  /\ selected' = IF MutationsInFlight(reqs \ {r}) = {} THEN Null ELSE selected
  /\ ~effectPending
  /\ r.stage = "done" /\ r.kind = "delete" /\ r.owner = "delete"
  /\ reqs' = reqs \ {r}
  /\ IF r.ok /\ NextAfterDelete(r.snapshot, r.id) # Null
     THEN /\ activeId' = NextAfterDelete(r.snapshot, r.id)
          /\ mode' = "viewing"
     ELSE UNCHANGED <<activeId, mode>>
  /\ effectPending' = (activeId' # activeId)
  /\ UNCHANGED <<cfgVars, apiVars, clock, search, steps, notes, status, error, saving,
                 tempCount>>

\* handleDelete after the await: notes is the closure's value, the
\* collection before the optimistic removal.  The refresh called from the
\* catch block keeps, as history, the id whose deletion failed.
DeleteDone(r) ==
  /\ last' = "DeleteDone"
  /\ selected' = IF MutationsInFlight(reqs \ {r}) = {} THEN Null ELSE selected
  /\ ~effectPending
  /\ r.stage = "done" /\ r.kind = "delete" /\ r.owner = "delete"
  /\ IF r.ok
     THEN /\ reqs' = reqs \ {r}
          /\ IF NextAfterDelete(r.snapshot, r.id) # Null
             THEN /\ activeId' = NextAfterDelete(r.snapshot, r.id)
                  /\ mode' = "viewing"
             ELSE UNCHANGED <<activeId, mode>>
          /\ effectPending' = (activeId' # activeId)
          /\ UNCHANGED <<status, error>>
     ELSE /\ reqs' = (reqs \ {r}) \cup {[RefreshCall(r.rid, "refresh") EXCEPT !.id = r.id]}
          /\ status' = "loading"
          /\ error' = ""
          /\ UNCHANGED <<activeId, mode, effectPending>>
  /\ UNCHANGED <<cfgVars, apiVars, clock, search, steps, notes, saving, tempCount>>

\* ---------------------------------------------------------- specification
Seed == Note(SeedId, "Welcome to Notes", "This is a demo note from the fallback store.", 0)

InitApi ==
  /\ base \in BOOLEAN
  /\ enableFallback \in BOOLEAN
  /\ fallbackNotes = <<Seed>>
  /\ srvNotes \in {<<>>, <<Note(1, "T1", "B", 0)>>,
                   <<Note(1, "T1", "B", 0), Note(2, "T1", "B", 0)>>}
  /\ srvNextId = Len(srvNotes) + 1
  /\ clock = 0

\* useState initial values
InitUi ==
  /\ notes = <<>>
  /\ error = ""
  /\ activeId = Null
  /\ mode = "empty"
  /\ saving = FALSE
  /\ search = <<>>
  /\ tempCount = 0
  /\ steps = 0
  /\ effectPending = FALSE
  /\ selected = Null
  /\ last = "mount"

\* the state after mount: the mount effect has called refresh()
Init ==
  /\ InitApi
  /\ reqs = {RefreshCall(1, "refresh")}
  /\ status = "loading"
  /\ InitUi

\* the API client alone, NotesLayout not mounted
InitClient ==
  /\ InitApi
  /\ reqs = {}
  /\ status = "idle"
  /\ InitUi

Next ==
  \/ \E r \in reqs : ServerHandle(r)
  \/ \E r \in reqs : RemoteFailure(r)
  \/ \E r \in reqs : ResponseArrives(r)
  \/ \E r \in reqs, rnd \in RandIds : FallbackRun(r, rnd)
  \/ \E r \in reqs : RefreshDone(r)
  \/ Effect
  \/ \E id \in Ids(Filtered) : OnSelect(id)
  \/ OnCreate
  \/ StartEdit
  \/ CancelEdit
  \/ \E p \in Payloads : HandleSaveCreate(p)
  \/ \E r \in reqs : CreateDone(r)
  \/ \E p \in Payloads : HandleSaveEdit(p)
  \/ \E r \in reqs : UpdateDone(r)
  \/ \E r \in reqs : SaveRefreshDone(r)
  \/ HandleDelete
  \/ HandleDeleteDeclined
  \/ HandleDeleteNoActive
  \/ \E r \in reqs : DeleteDone(r)

\* NotesLayout mounted on the API client.  No handler of NotesLayout reads
\* updatedAt, so this specification leaves the clock where it is.
Spec == Init /\ [][Next]_vars

\* what the scheduling guarantees: effects and continuations of settled
\* promises run, the timer of fakeDelay fires; and, as the premise that every
\* request resolves, the backend or the network answers every request
Fairness ==
  /\ WF_vars(Effect)
  /\ WF_vars(\E r \in reqs : RefreshDone(r))
  /\ WF_vars(\E r \in reqs : CreateDone(r))
  /\ WF_vars(\E r \in reqs : UpdateDone(r))
  /\ WF_vars(\E r \in reqs : SaveRefreshDone(r))
  /\ WF_vars(\E r \in reqs : DeleteDone(r))
  /\ WF_vars(\E r \in reqs, rnd \in RandIds : FallbackRun(r, rnd))
  /\ WF_vars(\E r \in reqs : ServerHandle(r) \/ RemoteFailure(r))
  /\ WF_vars(\E r \in reqs : ResponseArrives(r))

\* the state after mount with a backend that holds one note
InitLive == Init /\ Len(srvNotes) = 1

\* NotesLayout mounted on the API client, every request resolving
SpecLive == InitLive /\ [][Next]_vars /\ Fairness

ApiIds == 1..(1 + MaxRand)
ApiPayload == [title |-> "A", content |-> "B"]

NextClient ==
  \/ ApiCall("list", Null, NoPayload)
  \/ \E id \in ApiIds : ApiCall("get", id, NoPayload)
  \/ ApiCall("create", Null, ApiPayload)
  \/ \E id \in ApiIds : ApiCall("update", id, ApiPayload)
  \/ \E id \in ApiIds : ApiCall("delete", id, NoPayload)
  \/ \E r \in reqs : ApiDone(r)
  \/ \E r \in reqs : ServerHandle(r)
  \/ \E r \in reqs : RemoteFailure(r)
  \/ \E r \in reqs : ResponseArrives(r)
  \/ \E r \in reqs, rnd \in RandIds : FallbackRun(r, rnd)
  \/ Tick

\* the API client driven by arbitrary calls
SpecClient == InitClient /\ [][NextClient]_vars

\* the notes the sidebar search is checked on: at most two, with texts over
\* Chars
SearchNotes ==
  {<<>>}
  \cup {<<Note(1, t, c, 0)>> : t \in Texts, c \in Strings(1)}
  \cup {<<Note(1, t, c, 0), Note(2, <<" ", "A">>, <<>>, 0)>> : t \in Texts, c \in Strings(1)}

\* NotesLayout with a collection loaded and the reactive rule run, while a
\* refresh is in flight or after it
InitSearch ==
  /\ base = TRUE
  /\ enableFallback = FALSE
  /\ fallbackNotes = <<Seed>>
  /\ notes \in SearchNotes
  /\ srvNotes = notes
  /\ srvNextId = Len(srvNotes) + 1
  /\ clock = 0
  /\ status \in {"loading", "success", "error"}
  /\ reqs = IF status = "loading" THEN {RefreshCall(1, "refresh")} ELSE {}
  /\ error = IF status = "error" THEN RequestFailed ELSE ""
  /\ activeId = IF notes = <<>> THEN Null ELSE notes[1].id
  /\ mode = IF notes = <<>> THEN "empty" ELSE "viewing"
  /\ saving = FALSE
  /\ search = <<>>
  /\ tempCount = 0
  /\ steps = 0
  /\ effectPending = FALSE
  /\ selected = Null
  /\ last = "mount"

NextSearch ==
  \/ \E v \in Terms : SetSearch(v)

\* the sidebar search on a loaded collection
SpecSearch == InitSearch /\ [][NextSearch]_vars

\* ------------------------------------------------------------ properties
Modes == {"empty", "viewing", "editing", "creating"}

CreateInFlight == \E r \in reqs : r.kind = "create" /\ r.owner = "save"

\* C1: with a backend whose lists have unique ids, no two entries of the
\* notes collection have the same id, in every reachable state.
C1_UniqueIds ==
  (NoDup(srvNotes) /\ NoDup(fallbackNotes)) => NoDup(notes)

\* C2: outside the window between the optimistic insert of a create and the
\* arrival of its response, and once the reactive rule has run, a non-null
\* active id is the id of a note of the collection.
C2_ActiveInCollection ==
  (Stable /\ activeId # Null /\ ~CreateInFlight) => HasId(notes, activeId)

\* C3: once the reactive rule has run, mode is one of the four modes, and
\* viewing and editing have a non-null active id.
C3_ModeNeedsActive ==
  Stable => /\ mode \in Modes
            /\ mode \in {"viewing", "editing"} => activeId # Null

\* C4: the reactive rule triggered by the create-button action leaves mode
\* creating and the active id null.
C4_CreateKeepsCreating ==
  [][(Effect /\ last = "OnCreate") => (mode' = "creating" /\ activeId' = Null)]_vars

\* C5: a save from creating mode puts an optimistic note with a fresh
\* temporary id at the head of the collection, makes it active and sets mode
\* viewing while the create request is pending; when the request succeeds,
\* the server-returned note is at the head, no entry has the temporary id,
\* the other entries are as before, the active id is the server id and mode
\* is viewing; the reactive rule changes none of this.
C5_CreateReconciles ==
  [][/\ \A p \in Payloads : HandleSaveCreate(p) =>
          /\ notes'[1].id < 0
          /\ ~HasId(notes, notes'[1].id)
          /\ notes'[1].title = OrUntitled(p.title)
          /\ Tail(notes') = notes
          /\ activeId' = notes'[1].id
          /\ mode' = "viewing"
          /\ \E r \in reqs' \ reqs : r.kind = "create" /\ r.tempId = activeId'
     /\ \A r \in reqs : (CreateDone(r) /\ r.ok) =>
          /\ notes'[1] = r.data[1]
          /\ ~HasId(notes', r.tempId)
          /\ Tail(notes') = Without(notes, r.tempId)
          /\ activeId' = r.data[1].id
          /\ mode' = "viewing"
     /\ (Effect /\ last \in {"HandleSaveCreate", "CreateDone"}) =>
          UNCHANGED <<notes, activeId, mode>>
    ]_vars

\* a create request has just resolved successfully
C5_Witness ==
  /\ last = "CreateDone" /\ effectPending
  /\ Len(notes) > 1
  /\ activeId > 0 /\ notes[1].id = activeId
  /\ \A i \in DOMAIN notes : notes[i].id > 0
  /\ mode = "viewing" /\ ~saving

\* C6: deleting the only note of the collection, which is active, leaves the
\* collection empty, the active id null and mode empty after the optimistic
\* step and after the reactive rule; the successful resolution of the delete
\* request changes none of the three.
C6_DeleteOnlyNote ==
  [][/\ (HandleDelete /\ Len(notes) = 1) =>
          (notes' = <<>> /\ activeId' = Null /\ mode' = "empty")
     /\ (Effect /\ last = "HandleDelete" /\ notes = <<>>) =>
          (notes' = <<>> /\ activeId' = Null /\ mode' = "empty")
     /\ \A r \in reqs : (DeleteDone(r) /\ r.ok /\ Len(r.snapshot) = 1) =>
          UNCHANGED <<notes, activeId, mode>>
    ]_vars

\* the delete of the only note has resolved successfully, with no other user
\* action taken
C6_Witness ==
  /\ last = "DeleteDone" /\ steps = 1
  /\ status = "success"
  /\ notes = <<>> /\ activeId = Null /\ mode = "empty"

\* C7: a note created with an empty title is displayed with the title
\* "Untitled", and the create payload served by the backend, the note the
\* backend stores and the note the fallback store stores have that title.
C7_UntitledPersisted ==
  [][/\ \A p \in Payloads : HandleSaveCreate(p) => notes'[1].title # ""
     /\ \A r \in reqs : (r.kind = "create" /\ r.owner = "save" /\ ServerHandle(r)) =>
          (r.payload.title # "" /\ srvNotes'[1].title # "")
     /\ \A r \in reqs, rnd \in RandIds :
          (r.kind = "create" /\ r.owner = "save" /\ FallbackRun(r, rnd)) =>
             fallbackNotes'[1].title # ""
    ]_vars

\* the result a call has settled with
Failed(r, e) == r.stage = "done" /\ ~r.ok /\ r.err = e

\* C8: on the fallback path getNote, updateNote and deleteNote fail with
\* "not found" when no note of the fallback dataset has the id, and leave
\* the dataset unchanged.
C8_FallbackNotFound ==
  [][\A r \in reqs, rnd \in RandIds :
       (FallbackRun(r, rnd) /\ r.kind \in {"get", "update", "delete"}
          /\ ~HasId(fallbackNotes, r.id)) =>
            /\ \E q \in reqs' : q.rid = r.rid /\ Failed(q, NotFound)
            /\ fallbackNotes' = fallbackNotes
    ]_vars

IsSortedDesc(s) == \A i, j \in DOMAIN s : i < j => s[i].updatedAt >= s[j].updatedAt

SameNotes(s, t) ==
  /\ Len(s) = Len(t)
  /\ \A n \in {s[i] : i \in DOMAIN s} :
       Cardinality({i \in DOMAIN s : s[i] = n}) = Cardinality({i \in DOMAIN t : t[i] = n})

\* C10: on the fallback path listNotes returns the notes of the dataset
\* ordered by updatedAt descending; createNote returns a note whose id is
\* the id of no note already in the dataset, puts it at the head of the
\* dataset with the latest updatedAt, and a list that finds it there
\* returns it first.
C10_FallbackListCreate ==
  [][\A r \in reqs, rnd \in RandIds : FallbackRun(r, rnd) =>
       \E q \in reqs' :
          /\ q.rid = r.rid
          /\ r.kind = "list" =>
               /\ q.stage = "done" /\ q.ok
               /\ IsSortedDesc(q.data)
               /\ SameNotes(q.data, fallbackNotes)
               /\ (/\ fallbackNotes # <<>>
                   /\ \A i \in DOMAIN fallbackNotes :
                        fallbackNotes[i].updatedAt <= fallbackNotes[1].updatedAt)
                    => q.data[1] = fallbackNotes[1]
          /\ r.kind = "create" =>
               /\ q.stage = "done" /\ q.ok
               /\ ~HasId(fallbackNotes, q.data[1].id)
               /\ fallbackNotes' = q.data \o fallbackNotes
               /\ \A i \in DOMAIN fallbackNotes :
                    fallbackNotes[i].updatedAt <= q.data[1].updatedAt
    ]_vars

\* the text t contains the term u, letter case ignored
C11_Contains(t, u) ==
  \E off \in 0..(Len(t) - Len(u)) :
     \A k \in 1..Len(u) : LowerChar(t[off + k]) = LowerChar(u[k])

C11_Matches(n) ==
  \/ C11_Contains(n.title, Trim(search))
  \/ C11_Contains(n.content, Trim(search))

C11_List ==
  /\ Filtered = SelectSeq(notes, C11_Matches)
  /\ Trim(search) = <<>> => Filtered = notes

C11_Frame == [][search' # search => UNCHANGED <<notes, activeId, mode>>]_vars

\* C11: the sidebar list is the sub-list of the notes whose title or content
\* contains the trimmed, lower-cased search term; when no note matches a
\* non-empty term the list is empty and the placeholder "No notes match your
\* search" is shown; with the term empty the list is the whole collection in
\* its order; a change of the search term leaves the collection, the active
\* id and the mode unchanged.
C11_SearchFilter ==
  /\ [](/\ C11_List
        /\ (Trim(search) # <<>> /\ \A i \in DOMAIN notes : ~C11_Matches(notes[i])) =>
              (Filtered = <<>> /\ Placeholder = NoMatch))
  /\ C11_Frame

\* C11 as amended: the placeholder "No notes match your search" is shown when
\* no note matches a non-empty term and status is not loading.
C11_SearchFilterLoaded ==
  /\ [](/\ C11_List
        /\ (/\ Trim(search) # <<>>
            /\ \A i \in DOMAIN notes : ~C11_Matches(notes[i])
            /\ status # "loading") =>
              (Filtered = <<>> /\ Placeholder = NoMatch))
  /\ C11_Frame

\* a term padded with a blank and in upper case has been typed after the
\* load; no note of the two contains it
C11_Witness ==
  /\ last = "SetSearch"
  /\ search = <<" ", "A", "A">>
  /\ Len(notes) = 2 /\ notes[1].title = <<"a">>
  /\ status = "success"
  /\ Filtered = <<>> /\ Placeholder = NoMatch

\* C12: the reactive rule runs after every change of the collection or of
\* the active id; when it runs with a non-empty collection and no active
\* note, the first note becomes active and mode becomes viewing; when it runs
\* with an empty collection, the active id becomes null and mode becomes
\* empty; so between events a note is active exactly when the collection is
\* non-empty.
C12_ReactiveRule ==
  /\ [][/\ (notes' # notes \/ activeId' # activeId) => effectPending'
        /\ Effect => /\ (notes # <<>> /\ activeId = Null) =>
                          (activeId' = notes[1].id /\ mode' = "viewing")
                     /\ notes = <<>> => (activeId' = Null /\ mode' = "empty")
                     /\ notes' = notes
       ]_vars
  /\ [](Stable => ((notes # <<>>) <=> (activeId # Null)))

\* the rule has run after a delete emptied the collection, the delete
\* request still in flight
C12_Witness ==
  /\ last = "Effect" /\ steps = 1
  /\ \E r \in reqs : r.kind = "delete" /\ Len(r.snapshot) = 1
  /\ notes = <<>> /\ activeId = Null /\ mode = "empty"

\* C13: while a create request is in flight the reactive rule never changes
\* mode to empty and never clears a non-null active id.
C13_RuleKeepsCreate ==
  [][(Effect /\ CreateInFlight) =>
        /\ mode # "empty" => mode' # "empty"
        /\ activeId # Null => activeId' # Null
    ]_vars

\* the optimistic merge of handleSave's editing branch has been applied
C14_Merged(p) ==
  /\ Len(notes') = Len(notes)
  /\ \A i \in DOMAIN notes :
       IF notes[i].id = activeId
       THEN /\ notes'[i].id = activeId
            /\ notes'[i].title = p.title
            /\ notes'[i].content = p.content
       ELSE notes'[i] = notes[i]
  /\ \E r \in reqs' \ reqs : r.kind = "update" /\ r.id = activeId /\ r.payload = p

C14_RefreshIssued(r) ==
  \E q \in reqs' : q.kind = "list" /\ q.owner = "save" /\ q.rid = r.rid /\ q \notin reqs

\* C14: a save from editing mode merges the payload into the active note,
\* issues the update request, then calls refresh whatever the outcome of the
\* update request, and the handler ends with mode viewing, for a successful
\* and for a failed update request alike.
C14_EditSaveRefreshes ==
  [][/\ \A p \in Payloads : (HandleSaveEdit(p) /\ ActiveNote # <<>>) => C14_Merged(p)
     /\ \A r \in reqs : UpdateDone(r) =>
          /\ C14_RefreshIssued(r)
          /\ saving' = saving
     /\ \A r \in reqs : ((UpdateDone(r) \/ SaveRefreshDone(r)) /\ saving /\ ~saving') =>
          mode' = "viewing"
    ]_vars

\* C14 as amended: the refresh is called when the update request succeeds,
\* and the handler then ends with mode viewing whatever the outcome of the
\* refresh; when the update request fails, no refresh is called and the
\* handler ends with the mode left as it is.
C14_EditSaveRefreshesOnSuccess ==
  [][/\ \A p \in Payloads : (HandleSaveEdit(p) /\ ActiveNote # <<>>) => C14_Merged(p)
     /\ \A r \in reqs : (UpdateDone(r) /\ r.ok) =>
          /\ C14_RefreshIssued(r)
          /\ status' = "loading"
          /\ saving' = saving
     /\ \A r \in reqs : (UpdateDone(r) /\ ~r.ok) =>
          /\ reqs' = reqs \ {r}
          /\ ~saving'
          /\ UNCHANGED <<mode, notes, status>>
     /\ \A r \in reqs : SaveRefreshDone(r) => (mode' = "viewing" /\ ~saving')
    ]_vars

\* an edit has been saved, the update request has failed: the merged title is
\* shown, the backend keeps the old one, no refresh is in flight and the
\* editor stays open
C14_Witness ==
  /\ last = "UpdateDone" /\ steps = 2
  /\ reqs = {} /\ ~saving /\ mode = "editing" /\ status = "success"
  /\ ActiveNote # <<>> /\ ActiveNote[1].title = ""
  /\ base /\ srvNotes # <<>> /\ srvNotes[1].title = "T1"

\* C15: when a confirmed delete resolves successfully and the collection
\* held other notes, mode is viewing, the active id is the first note of the
\* pre-deletion collection that is not the deleted one, and the deleted id
\* is not in the collection.
C15_DeleteSelectsNext ==
  [][\A r \in reqs : (DeleteDone(r) /\ r.ok /\ Without(r.snapshot, r.id) # <<>>) =>
        /\ mode' = "viewing"
        /\ activeId' # r.id
        /\ activeId' = Without(r.snapshot, r.id)[1].id
        /\ ~HasId(notes', r.id)
    ]_vars

\* the active id and the mode the reactive rule yields from a collection,
\* an active id and a mode
C16_RuleActive(ns, a) ==
  IF ns # <<>> /\ a = Null THEN ns[1].id ELSE IF ns = <<>> THEN Null ELSE a

C16_RuleMode(ns, a, m) ==
  IF ns # <<>> /\ a = Null THEN "viewing" ELSE IF ns = <<>> THEN "empty" ELSE m

\* a failed delete triggers a refresh; a successful refresh makes the
\* collection the returned list
C16_Resync ==
  /\ \A r \in reqs : (DeleteDone(r) /\ ~r.ok) =>
        /\ \E q \in reqs' \ reqs : q.kind = "list" /\ q.owner = "refresh" /\ q.id = r.id
        /\ status' = "loading"
  /\ \A r \in reqs : (RefreshDone(r) /\ r.ok /\ r.id # Null) =>
        /\ notes' = r.data
        /\ HasId(r.data, r.id) => HasId(notes', r.id)
        /\ effectPending'
  /\ Effect => /\ activeId' = C16_RuleActive(notes, activeId)
               /\ mode' = C16_RuleMode(notes, activeId, mode)

C17_NoRollback ==
  [][/\ \A r \in reqs : ((CreateDone(r) \/ UpdateDone(r)) /\ ~r.ok) =>
          /\ UNCHANGED <<notes, activeId, mode, status, error>>
          /\ reqs' = reqs \ {r}
          /\ ~saving'
     /\ \A i \in DOMAIN notes :
          (/\ notes[i].id < 0
           /\ ~HasId(notes', notes[i].id)
           /\ \A r \in reqs : r.kind = "create" => r.tempId # notes[i].id) =>
             last' \in {"RefreshDone", "SaveRefreshDone", "HandleDelete"}
    ]_vars

\* a create request has failed after the load: the optimistic entry is at
\* the head of the collection and active, nothing is in flight
C17_Witness ==
  /\ last = "CreateDone" /\ ~effectPending
  /\ status = "success" /\ reqs = {} /\ ~saving
  /\ Len(notes) = 1 /\ notes[1].id < 0 /\ activeId = notes[1].id /\ mode = "viewing"
  /\ base /\ srvNotes = <<>>

\* C18: a call of refresh sets status loading and clears the error message;
\* when the list call succeeds, the collection becomes the returned list and
\* status success; when it fails, status becomes error, the error message is
\* the failure's message, and refresh leaves the collection, the active id
\* and the mode unchanged (after the refresh awaited by an edit-save the
\* save handler sets the mode).
C18_Refresh ==
  [][/\ (\E q \in reqs' : /\ q.kind = "list"
                          /\ \A r \in reqs : ~(r.rid = q.rid /\ r.kind = "list")) =>
          (status' = "loading" /\ error' = "")
     /\ \A r \in reqs : (RefreshDone(r) \/ SaveRefreshDone(r)) =>
          IF r.ok
          THEN notes' = r.data /\ status' = "success"
          ELSE /\ status' = "error"
               /\ error' = r.err /\ error' # ""
               /\ UNCHANGED <<notes, activeId>>
               /\ RefreshDone(r) => UNCHANGED mode
    ]_vars

\* the refresh after a failed delete has failed too: the collection is the
\* one the optimistic removal left
C18_Witness ==
  /\ last = "RefreshDone" /\ steps = 1
  /\ status = "error" /\ error = RequestFailed
  /\ Len(notes) = 1 /\ Len(srvNotes) = 2
  /\ activeId = notes[1].id /\ mode = "viewing"

\* C19: the delete handler changes nothing and issues no request when no
\* note of the collection is active or when the user declines the prompt;
\* a delete request is issued only by a confirmed delete of the active note.
C19_DeleteNeedsConfirm ==
  [][/\ (HandleDeleteDeclined \/ HandleDeleteNoActive) =>
          UNCHANGED <<notes, activeId, mode, reqs, status, saving, apiVars>>
     /\ \A q \in reqs' : (q.kind = "delete" /\ \A r \in reqs : r.rid # q.rid) =>
          /\ ActiveNote # <<>>
          /\ q.id = activeId
          /\ last' = "HandleDelete"
    ]_vars

\* the user has declined the deletion of the first of two notes
C19_Witness ==
  /\ last = "HandleDeleteDeclined"
  /\ Len(notes) = 2 /\ activeId = notes[1].id /\ mode = "viewing"
  /\ reqs = {} /\ srvNotes = notes

\* the requests a running save handler awaits: the create, the update, or
\* the refresh after the update
SaveRequests == {r \in reqs : r.owner = "save"}

RefreshesInFlight == {r \in reqs : r.kind = "list" /\ r.owner \in {"refresh", "save"}}

\* C21: status is loading exactly while at least one refresh is in flight,
\* also when refreshes overlap and their responses arrive in any order.
C21_LoadingWhileRefreshing ==
  (status = "loading") <=> (RefreshesInFlight # {})

\* C22: a selection the user makes while a create or a delete request is in
\* flight is kept: when the request resolves successfully, the active id is
\* still the id the user selected (the optimistic note of that create
\* excepted, whose id the response replaces).
C22_SelectionKept ==
  [][\A r \in reqs :
       (/\ CreateDone(r) \/ DeleteDone(r)
        /\ r.ok
        /\ selected # Null /\ selected # r.tempId /\ activeId = selected) =>
          activeId' = selected
    ]_vars

====
